---- MODULE Spec2Model ----
(***************************************************************************)
(* A model of vtop's metrics pipeline: the providers' get_metrics (the     *)
(* powermetrics artifact reader of AppleSiliconProvider and the psutil     *)
(* reader of IntelProvider), the SoC power-limit tables, and the session   *)
(* loop of vtop.main with its rolling windows, peaks and power charts.     *)
(*                                                                         *)
(* Bytes of the powermetrics artifact are modelled as tokens [k, v]: a     *)
(* NUL delimiter, the opening and closing tags of a property list, and one *)
(* token per key of the property list.  Watt values are exact rationals    *)
(* [num, den] (the code uses floats).                                      *)
(***************************************************************************)
EXTENDS Integers, Sequences, FiniteSets, TLC

VARIABLES
    arch,                \* architecture of the provider object
    soc_info,            \* provider.get_soc_info()
    args,                \* argparse namespace: interval, avg, max_count
    cpu_max_power,       \* main: divisor of the CPU power percentage
    gpu_max_power,       \* main: divisor of the GPU power percentage
    pc,                  \* position of the control flow
    now,                 \* the last reading of time.time()
    timecode,            \* main: id of the current powermetrics session
    monitor_process,     \* main: handle returned by start_monitoring
    procs,               \* the powermetrics processes that are running
    files,               \* /tmp/vtop_powermetrics<timecode>, per timecode
    pending,             \* bytes the running powermetrics has yet to write
    produced,            \* timestamps of the samples powermetrics has begun
    os_query,            \* what sysctl and psutil answer
    ready,               \* main: last value returned by get_metrics
    last_timestamp,      \* main
    count,               \* main
    cpu_peak_power,      \* main
    gpu_peak_power,      \* main
    package_peak_power,  \* main
    avg_cpu_power_list,  \* main: deque(maxlen = int(avg / interval))
    avg_gpu_power_list,  \* main
    cpu_power_chart,     \* what main pushed to the CPU power chart
    gpu_power_chart,     \* what main pushed to the GPU power chart
    power_text,          \* what main pushed to the package power text
    blobs,               \* ghost: the blobs a buffer under test was built from
    session,             \* ghost: starts so far, watts pushed since the last
                         \*        (and, where main is followed statement by
                         \*        statement, the timecodes given to them)
    returned,            \* ghost: the samples get_metrics returned to main,
                         \*        a sample polled again and again listed once
    accepted,            \* ghost: timestamps of the samples main aggregated
    host,                \* the machine and the account vtop runs on
    force,               \* the override given to get_system_provider
    outcome,             \* how main ended: its return value or its exception
    cleaned,             \* ghost: the calls of provider.cleanup so far
    e_core_charts,       \* main: what each E-core chart was given
    p_core_charts        \* main: what each P-core chart was given

vars == <<arch, soc_info, args, cpu_max_power, gpu_max_power, pc, now, timecode,
          monitor_process, procs, files, pending, produced, os_query, ready,
          last_timestamp, count, cpu_peak_power, gpu_peak_power,
          package_peak_power, avg_cpu_power_list, avg_gpu_power_list,
          cpu_power_chart, gpu_power_chart, power_text, blobs, session,
          returned, accepted, host, force, outcome, cleaned, e_core_charts,
          p_core_charts>>

----------------------------------------------------------------------------
(* Sequences and rationals *)

Last(s) == s[Len(s)]

RECURSIVE SeqSum(_)
SeqSum(s) == IF s = <<>> THEN 0 ELSE Head(s) + SeqSum(Tail(s))

RECURSIVE GCD(_, _)
GCD(a, b) == IF b = 0 THEN a ELSE GCD(b, a % b)

\* The rational n/d (n >= 0, d > 0) in lowest terms.
Rat(n, d) == LET g == GCD(n, d) IN [num |-> n \div g, den |-> d \div g]

RatZero == Rat(0, 1)
RatAdd(a, b) == Rat(a.num * b.den + b.num * a.den, a.den * b.den)
RatDivInt(a, n) == Rat(a.num, a.den * n)
RatGT(a, b) == a.num * b.den > b.num * a.den
\* Python's int() of a non-negative quotient: the integer part.
RatFloor(a) == a.num \div a.den

RECURSIVE RatSum(_)
RatSum(s) == IF s = <<>> THEN RatZero ELSE RatAdd(Head(s), RatSum(Tail(s)))

----------------------------------------------------------------------------
(* The powermetrics artifact: bytes, records, property lists *)

NUL == [k |-> "NUL", v |-> <<>>]
OPEN == [k |-> "<plist>", v |-> <<>>]
CLOSE == [k |-> "</plist>", v |-> <<>>]

KV(key, val) == [k |-> key, v |-> val]

\* One plist written by powermetrics for a sample with timestamp t, thermal
\* pressure index th and power triple w = <<cpu, gpu, package>>.
Plist(t, th, w) ==
    <<OPEN, KV("timestamp", <<t>>), KV("thermal_pressure", <<th>>),
      KV("processor", w), KV("gpu", <<w[2] * 10, 1000 + w[2]>>), CLOSE>>

\* bytes.split(b'\x00'): the blobs between the NUL bytes, in order; n NUL
\* bytes give n + 1 blobs, an empty buffer gives one empty blob.
RECURSIVE SplitFrom(_, _, _)
SplitFrom(bytes, done, cur) ==
    IF bytes = <<>> THEN Append(done, cur)
    ELSE IF Head(bytes) = NUL
         THEN SplitFrom(Tail(bytes), Append(done, cur), <<>>)
         ELSE SplitFrom(Tail(bytes), done, Append(cur, Head(bytes)))

Split(bytes) == SplitFrom(bytes, <<>>, <<>>)

Raised == [kind |-> "raise"]
None == [kind |-> "None"]

\* plistlib.loads(blob): the dictionary of a complete plist, as its set of
\* key/value tokens; raises on an empty, truncated or garbled blob.
plistlib_loads(blob) ==
    IF /\ Len(blob) >= 2
       /\ blob[1] = OPEN
       /\ blob[Len(blob)] = CLOSE
       /\ \A i \in 2..(Len(blob) - 1) : blob[i] \notin {NUL, OPEN, CLOSE}
    THEN [kind |-> "dict", items |-> {blob[i] : i \in 2..(Len(blob) - 1)}]
    ELSE Raised

HasKey(d, key) == \E it \in d.items : it.k = key
Get(d, key) == (CHOOSE it \in d.items : it.k = key).v

ThermalName(i) == IF i = 0 THEN "Nominal" ELSE "Heavy"

parse_thermal_pressure(d) ==
    IF HasKey(d, "thermal_pressure")
    THEN [kind |-> "value", value |-> ThermalName(Get(d, "thermal_pressure")[1])]
    ELSE Raised

parse_cpu_metrics(d) ==
    IF HasKey(d, "processor")
    THEN LET p == Get(d, "processor")
         IN [kind |-> "value",
             value |-> [cpu_W |-> p[1], gpu_W |-> p[2], package_W |-> p[3],
                        ane_W |-> 0]]
    ELSE Raised

parse_gpu_metrics(d) ==
    IF HasKey(d, "gpu")
    THEN LET g == Get(d, "gpu")
         IN [kind |-> "value", value |-> [active |-> g[1], freq_MHz |-> g[2]]]
    ELSE Raised

Sample(cpu, gpu, thermal, ts) ==
    [kind |-> "sample", cpu_metrics |-> cpu, gpu_metrics |-> gpu,
     thermal_pressure |-> thermal, bandwidth |-> "None", timestamp |-> ts]

\* One decode attempt of get_metrics on one blob: the returned tuple, or
\* Raised when any of its statements raises.
DecodeEntry(blob) ==
    LET d == plistlib_loads(blob) IN
    IF d.kind = "raise" THEN Raised
    ELSE LET th == parse_thermal_pressure(d)
             cpu == parse_cpu_metrics(d)
             gpu == parse_gpu_metrics(d)
         IN IF th.kind = "raise" \/ cpu.kind = "raise" \/ gpu.kind = "raise"
            THEN Raised
            ELSE IF ~HasKey(d, "timestamp") THEN Raised
            ELSE Sample(cpu.value, gpu.value, th.value, Get(d, "timestamp")[1])

\* A file of the temp directory: absent, unreadable, or a buffer of bytes.
NoFile == [exists |-> FALSE, readable |-> FALSE, bytes |-> <<>>]
Unreadable == [exists |-> TRUE, readable |-> FALSE, bytes |-> <<>>]
FileOf(bytes) == [exists |-> TRUE, readable |-> TRUE, bytes |-> bytes]

\* Mutant: the retry decodes the last entry again.
AppleFallbackLastAgain(f) ==
    IF f.exists /\ f.readable /\ Len(Split(f.bytes)) > 1
    THEN LET second == DecodeEntry(Last(Split(f.bytes)))
         IN IF second.kind = "sample" THEN second ELSE None
    ELSE None

\* Mutant: the retry walks back over all earlier entries.
RECURSIVE ScanBack(_, _)
ScanBack(data, i) ==
    IF i < 1 THEN None
    ELSE IF DecodeEntry(data[i]).kind = "sample" THEN DecodeEntry(data[i])
    ELSE ScanBack(data, i - 1)
AppleFallbackScan(f) ==
    IF f.exists /\ f.readable THEN ScanBack(Split(f.bytes), Len(Split(f.bytes)) - 1)
    ELSE None

\* The except branch of AppleSiliconProvider.get_metrics.
AppleFallback(f) ==
    IF f.exists /\ f.readable /\ Len(Split(f.bytes)) > 1
    THEN LET data == Split(f.bytes)
             entry == data[Len(data) - 1]
         IN IF Len(entry) > 0
            THEN LET second == DecodeEntry(entry)
                 IN IF second.kind = "sample" THEN second ELSE None
            ELSE None
    ELSE None

\* AppleSiliconProvider.get_metrics on the artifact f.
AppleGetMetrics(f) ==
    LET first == IF f.exists /\ f.readable
                 THEN DecodeEntry(Last(Split(f.bytes)))
                 ELSE Raised
    IN IF first.kind = "sample" THEN first ELSE AppleFallback(f)

----------------------------------------------------------------------------
(* IntelProvider.get_metrics *)

\* Python values that may be None: <<>> is None, <<x>> is the value x.
PyNone == <<>>
Some(x) == <<x>>

\* The body of the try block: psutil's per-core percentages (or a raising
\* query), the P-cluster figures, zero power, and time.time() as timestamp.
IntelTry(q, t) ==
    IF q.raises THEN Raised
    ELSE LET per_cpu_percent == q.per_cpu_percent
             n == Len(per_cpu_percent)
         IN Sample([cpu_W |-> 0, gpu_W |-> 0, package_W |-> 0, ane_W |-> 0,
                    p_core |-> [i \in 1..n |-> i - 1],
                    P_Cluster_active |->
                        IF n > 0 THEN SeqSum(per_cpu_percent) \div n ELSE 0],
                   [active |-> 0, freq_MHz |-> 0],
                   q.thermal, t)

\* Mutant: no except clause around the queries.
IntelGetMetricsUncaught(q, t) == IntelTry(q, t)

IntelGetMetrics(q, t) ==
    LET r == IntelTry(q, t) IN IF r.kind = "raise" THEN None ELSE r

\* provider.get_metrics(timecode) for the provider of architecture a: f is
\* the artifact at the timecode's path, q the state of the OS queries, t the
\* current time.
get_metrics(a, f, q, t) ==
    IF a = "apple_silicon" THEN AppleGetMetrics(f) ELSE IntelGetMetrics(q, t)

----------------------------------------------------------------------------
(* SoC profiles: names are sequences of characters *)

\* Python's `sub in s` on strings.
Contains(s, sub) ==
    \E i \in 0..(Len(s) - Len(sub)) :
        \A j \in 1..Len(sub) : s[i + j] = sub[j]

Upper == <<"A", "C", "D", "I", "M", "P", "R", "U", "X">>
LowerOf == <<"a", "c", "d", "i", "m", "p", "r", "u", "x">>
LowerChar(c) ==
    IF \E i \in 1..Len(Upper) : Upper[i] = c
    THEN LowerOf[CHOOSE i \in 1..Len(Upper) : Upper[i] = c]
    ELSE c
\* str.lower()
Lower(s) == [i \in 1..Len(s) |-> LowerChar(s[i])]

Apple == <<"A", "p", "p", "l", "e">>
Intel == <<"I", "n", "t", "e", "l">>
AppleM1 == Apple \o <<" ", "M", "1">>
AppleM1Max == AppleM1 \o <<" ", "M", "a", "x">>
AppleM1Pro == AppleM1 \o <<" ", "P", "r", "o">>
AppleM1Ultra == AppleM1 \o <<" ", "U", "l", "t", "r", "a">>
AppleM2 == Apple \o <<" ", "M", "2">>
AppleM2Pro == AppleM2 \o <<" ", "P", "r", "o">>
AppleM3 == Apple \o <<" ", "M", "3">>
AppleM3Max == AppleM3 \o <<" ", "M", "a", "x">>
AppleM4 == Apple \o <<" ", "M", "4">>
AppleM5 == Apple \o <<" ", "M", "5">>
IntelCPU == Intel \o <<" ", "C", "P", "U">>
IntelI9 == Intel \o <<" ", "i", "9">>
IntelI7 == Intel \o <<" ", "i", "7">>
IntelI5 == Intel \o <<" ", "i", "5">>
IntelI3 == Intel \o <<" ", "i", "3">>
IntelXeon == Intel \o <<" ", "X", "e", "o", "n">>
IntelCore2 == Intel \o <<" ", "C", "o", "r", "e", " ", "2">>

PowerLimits(cpu, gpu) == [cpu_max_power |-> Some(cpu), gpu_max_power |-> Some(gpu)]

\* Mutant: no else branch, an unrecognized name keeps the None limits.
set_power_limits_no_else(name) ==
    IF name = AppleM1Max THEN PowerLimits(30, 60)
    ELSE IF name = AppleM1Pro THEN PowerLimits(30, 30)
    ELSE IF name = AppleM1 THEN PowerLimits(20, 20)
    ELSE IF name = AppleM1Ultra THEN PowerLimits(60, 120)
    ELSE IF name = AppleM2 THEN PowerLimits(25, 15)
    ELSE IF Contains(name, <<"M", "3">>) THEN PowerLimits(30, 30)
    ELSE IF Contains(name, <<"M", "4">>) THEN PowerLimits(35, 35)
    ELSE [cpu_max_power |-> PyNone, gpu_max_power |-> PyNone]

\* AppleSiliconProvider._set_power_limits
set_power_limits(name) ==
    IF name = AppleM1Max THEN PowerLimits(30, 60)
    ELSE IF name = AppleM1Pro THEN PowerLimits(30, 30)
    ELSE IF name = AppleM1 THEN PowerLimits(20, 20)
    ELSE IF name = AppleM1Ultra THEN PowerLimits(60, 120)
    ELSE IF name = AppleM2 THEN PowerLimits(25, 15)
    ELSE IF Contains(name, <<"M", "3">>) THEN PowerLimits(30, 30)
    ELSE IF Contains(name, <<"M", "4">>) THEN PowerLimits(35, 35)
    ELSE PowerLimits(20, 20)

\* IntelProvider._estimate_tdp; brand is the brand string or "" when sysctl
\* gave none.
estimate_tdp(brand_string) ==
    LET brand == Lower(brand_string) IN
    IF Contains(brand, <<"i", "9">>) THEN Some(45)
    ELSE IF Contains(brand, <<"i", "7">>) THEN Some(35)
    ELSE IF Contains(brand, <<"i", "5">>) THEN Some(28)
    ELSE IF Contains(brand, <<"i", "3">>) THEN Some(15)
    ELSE IF Contains(brand, <<"x", "e", "o", "n">>) THEN Some(65)
    ELSE Some(25)

\* provider.get_soc_info(): the name and the power limits of the profile.
\* brand is what sysctl reports as machdep.cpu.brand_string (PyNone when the
\* key is missing, which only IntelProvider tolerates).
get_soc_info(a, brand) ==
    IF a = "apple_silicon"
    THEN [name |-> brand[1]] @@ set_power_limits(brand[1])
    ELSE [name |-> IF brand = PyNone THEN IntelCPU ELSE brand[1],
          cpu_max_power |-> estimate_tdp(IF brand = PyNone THEN <<>> ELSE brand[1]),
          gpu_max_power |-> PyNone]

CpuDefaultMax == 50
GpuDefaultMax == 25

\* Python's `x or default` on an optional number.
PyOr(x, default) == IF x = PyNone \/ x[1] = 0 THEN default ELSE x[1]

\* main: cpu_max_power / gpu_max_power, kept as optional values.
main_cpu_max_power(info) == Some(PyOr(info.cpu_max_power, CpuDefaultMax))
main_gpu_max_power(info) == Some(PyOr(info.gpu_max_power, GpuDefaultMax))

----------------------------------------------------------------------------
(* The aggregation of main *)

\* int(args.avg / args.interval): maxlen of the two deques.
Capacity(a) == a.avg \div a.interval

\* Mutant: the deque has no maxlen.
DequeAppendUnbounded(q, x, maxlen) == Append(q, x)

\* deque.append on a deque with the given maxlen.
DequeAppend(q, x, maxlen) ==
    IF maxlen = 0 THEN <<>>
    ELSE IF Len(q) >= maxlen THEN Append(Tail(q), x)
    ELSE Append(q, x)

\* Mutant: the sum is not divided by the length.
get_avg_total(inlist) == RatSum(inlist)

\* main.get_avg
get_avg(inlist) ==
    IF inlist # <<>> THEN RatDivInt(RatSum(inlist), Len(inlist)) ELSE RatZero

\* Mutant: the peak follows the latest value.
NewPeakLatest(peak, w) == w

\* Mutant: the comparison is inverted.
NewPeakMin(peak, w) == IF RatGT(peak, w) THEN w ELSE peak

\* main, lines 487-492: a peak after the value w.
NewPeak(peak, w) == IF RatGT(w, peak) THEN w ELSE peak

Min(a, b) == IF a < b THEN a ELSE b

\* What the double arithmetic of w / max_power * 100 loses against the exact
\* quotient before int() cuts it: for the limits of the profiles and the
\* watt values of this model (integers below 400 over interval 1 or 2) the
\* two differ for 14.5 W against 25 W alone, where the doubles give
\* 57.99999999999999 for the exact 58.
FloatShortfall(w, max_power) ==
    IF w = Rat(29, 2) /\ max_power[1] = 25 THEN 1 ELSE 0

\* Python's round() of the quotient n / d: to the nearest integer, a tie to
\* the even one.
RoundHalfEven(n, d) ==
    LET f == n \div d
        twice == 2 * (n % d)
    IN IF twice > d THEN f + 1
       ELSE IF twice < d THEN f
       ELSE IF f % 2 = 0 THEN f ELSE f + 1

\* Mutant: the quotient is rounded, not cut.
IntPctRounded(w, max_power) == RoundHalfEven(w.num * 100, w.den * max_power[1])

\* int(w / max_power * 100)
IntPct(w, max_power) ==
    RatFloor(Rat(w.num * 100, w.den * max_power[1])) - FloatShortfall(w, max_power)

\* Mutant: the percentage is not clamped.
PowerPctUnclamped(w, max_power) == IntPct(w, max_power)

\* min(100, int(w / max_power * 100))
PowerPct(w, max_power) == Min(100, IntPct(w, max_power))

----------------------------------------------------------------------------
(* State shared by the specifications *)

Archs == {"apple_silicon", "intel"}

\* The file at /tmp/vtop_powermetrics<tc>.
FileAt(tc) == IF tc \in DOMAIN files THEN files[tc] ELSE NoFile

NoFiles == [tc \in {} |-> NoFile]

\* What the OS answers: sysctl's machdep.cpu.brand_string (PyNone when the
\* key is missing), whether a psutil query raises, psutil's per-core
\* percentages and the thermal status.
BrandOf(a) == Some(IF a = "intel" THEN IntelI9 ELSE AppleM1)
QuietOs(brand) ==
    [brand_string |-> brand, raises |-> FALSE, per_cpu_percent |-> <<10, 31>>,
     thermal |-> "Nominal"]
OsQueries(brand) ==
    [brand_string : {brand}, raises : BOOLEAN,
     per_cpu_percent : {<<>>, <<10, 31>>},
     thermal : {"Nominal", "Thermal Level 1"}]

\* platform.machine() of the two kinds of Mac.
arm64 == <<"a", "r", "m", "6", "4">>
x86_64 == <<"x", "8", "6", "_", "6", "4">>

\* The machine vtop runs on: platform.system(), platform.machine(), the
\* stripped output of `sysctl -n machdep.cpu.brand_string`, whether running
\* that probe raises, and whether the OS lets vtop's account remove the files
\* and signal the processes of `sudo powermetrics` (it does for root).
HostOf(a) ==
    [system |-> "Darwin",
     machine |-> IF a = "intel" THEN x86_64 ELSE arm64,
     brand |-> BrandOf(a)[1],
     probe_raises |-> FALSE,
     privileged |-> TRUE]

\* How main ended: "running" until it does; "error_return" for the return
\* of line 231 with the message it printed; "interrupted" for the return of
\* line 562 with the handle it returns; "raised" for an exception that
\* leaves main.
Outcome(kind, status, handle, error, message) ==
    [kind |-> kind, status |-> status, handle |-> handle, error |-> error,
     message |-> message]
Running == Outcome("running", <<>>, <<>>, "", <<>>)

\* main has not ended and provider.cleanup has not been called.
NotEnded ==
    /\ outcome = Running
    /\ cleaned = <<>>

\* The aggregation state of main before its loop (lines 355-357, 375-376, 387).
MainIdle ==
    /\ ready = None
    /\ last_timestamp = 0
    /\ count = 0
    /\ cpu_peak_power = RatZero
    /\ gpu_peak_power = RatZero
    /\ package_peak_power = RatZero
    /\ avg_cpu_power_list = <<>>
    /\ avg_gpu_power_list = <<>>
    /\ cpu_power_chart = <<>>
    /\ gpu_power_chart = <<>>
    /\ power_text = <<>>
    /\ session = [starts |-> 0, pushed |-> <<>>]
    /\ returned = <<>>
    /\ accepted = <<>>

NoSession ==
    /\ now = 1
    /\ timecode = 1
    /\ monitor_process = PyNone
    /\ procs = {}
    /\ pending = <<>>
    /\ produced = <<>>

mainVars == <<last_timestamp, count, cpu_peak_power, gpu_peak_power,
              package_peak_power, avg_cpu_power_list, avg_gpu_power_list,
              cpu_power_chart, gpu_power_chart, power_text, session, accepted>>
configVars == <<arch, soc_info, args, cpu_max_power, gpu_max_power, host, force>>
sessionVars == <<now, timecode, monitor_process, procs, pending, produced>>
endVars == <<outcome, cleaned>>
coreVars == <<e_core_charts, p_core_charts>>

\* The power row alone is followed: main has no per-core chart and the row
\* of lines 418-433 is left out.
NoCoreRow ==
    /\ e_core_charts = <<>>
    /\ p_core_charts = <<>>

----------------------------------------------------------------------------
(* ProviderSpec: get_metrics of either provider on bounded inputs *)

MaxBlobs == 3

\* Blobs a buffer may hold: complete plists, a truncated one, bytes that are
\* no plist, plists lacking a required key, and the empty blob.
GoodParams == {<<t, th, <<5 * t, 9, 14>>>> : t \in 1..2, th \in 0..1}
GoodBlobs == {Plist(g[1], g[2], g[3]) : g \in GoodParams}
BadBlobs ==
    {<<>>,
     SubSeq(Plist(1, 0, <<5, 9, 14>>), 1, 3),
     <<KV("garbage", <<>>)>>,
     <<OPEN, KV("thermal_pressure", <<0>>), KV("processor", <<5, 9, 14>>),
       KV("gpu", <<90, 1009>>), CLOSE>>,
     <<OPEN, KV("timestamp", <<1>>), KV("thermal_pressure", <<0>>),
       KV("gpu", <<90, 1009>>), CLOSE>>}
TestBlobs == GoodBlobs \cup BadBlobs

BlobSeqs == UNION {[1..n -> TestBlobs] : n \in 1..MaxBlobs}

\* The buffer holding the blobs bs, one NUL between neighbours.
RECURSIVE Join(_)
Join(bs) ==
    IF Len(bs) = 1 THEN bs[1] ELSE bs[1] \o <<NUL>> \o Join(Tail(bs))

ProviderInit ==
    /\ arch \in Archs
    /\ soc_info = get_soc_info(arch, BrandOf(arch))
    /\ args = [interval |-> 1, avg |-> 2, max_count |-> 0]
    /\ cpu_max_power = main_cpu_max_power(soc_info)
    /\ gpu_max_power = main_gpu_max_power(soc_info)
    /\ pc = "provider"
    /\ NoSession
    /\ host = HostOf(arch)
    /\ force = PyNone
    /\ NotEnded
    /\ MainIdle
    /\ NoCoreRow
    /\ \/ /\ arch = "apple_silicon"
          /\ \/ blobs \in BlobSeqs /\ files = (timecode :> FileOf(Join(blobs)))
             \/ blobs = <<>> /\ files \in {NoFiles, (timecode :> Unreadable)}
          /\ os_query = QuietOs(BrandOf(arch))
       \/ /\ arch = "intel"
          /\ blobs = <<>>
          /\ files = NoFiles
          /\ os_query \in OsQueries(BrandOf(arch))

\* One call of provider.get_metrics(timecode).
ProviderPoll ==
    /\ UNCHANGED coreVars
    /\ pc = "provider"
    /\ ready' = get_metrics(arch, FileAt(timecode), os_query, now)
    /\ pc' = "polled"
    /\ UNCHANGED <<configVars, sessionVars, mainVars, files, os_query, blobs,
                   returned, endVars>>

ProviderNext == ProviderPoll

ProviderSpec == ProviderInit /\ [][ProviderNext]_vars

----------------------------------------------------------------------------
(* Spec: the session loop of main, its provider and powermetrics *)

MaxSamples == 3
MaxStarts == 2
MaxTime == 4
ChunkLen == 4

Intervals == {1, 2}
Avgs == {2}
MaxCounts == {0, 2}
\* <<cpu_W, gpu_W, package_W>> of the samples powermetrics may write.
PowerTriples == {<<5, 9, 40>>, <<7, 5, 12>>, <<9, 7, 16>>}
SessionOsQueries ==
    {q \in OsQueries(os_query.brand_string) :
        q.per_cpu_percent # <<>> /\ q.thermal = "Nominal"}

Init ==
    /\ arch \in Archs
    /\ soc_info = get_soc_info(arch, BrandOf(arch))
    /\ args \in [interval : Intervals, avg : Avgs, max_count : MaxCounts]
    /\ cpu_max_power = main_cpu_max_power(soc_info)
    /\ gpu_max_power = main_gpu_max_power(soc_info)
    /\ pc = "start"
    /\ NoSession
    /\ host = HostOf(arch)
    /\ force = PyNone
    /\ NotEnded
    /\ files = NoFiles
    /\ os_query = QuietOs(BrandOf(arch))
    /\ blobs = <<>>
    /\ MainIdle
    /\ NoCoreRow

\* What subprocess.Popen of `sudo ... powermetrics` may do: leave the
\* process running, return the handle of a process that exits at once (sudo
\* refuses, powermetrics fails), or raise (no sudo to execute).
PopenOutcomes == {"running", "exited", "raises"}

\* The loop of os.remove over glob("/tmp/vtop_powermetrics*") with its
\* `except: pass`: the files left.  The artifacts are written by the
\* powermetrics that sudo runs; os.remove raises for them when the OS does
\* not let vtop's account remove them.
RemoveArtifacts(fs) ==
    IF host.privileged THEN NoFiles ELSE fs

\* provider.start_monitoring(timecode, interval) on the running processes
\* ps: the Apple provider removes the /tmp/vtop_powermetrics* files and
\* spawns powermetrics, the Intel provider spawns nothing.  When Popen
\* raises, so does start_monitoring, and the caller's handle stays.
start_monitoring(tc, ps, popen) ==
    IF arch = "apple_silicon"
    THEN LET pid == session.starts + 1
         IN /\ files' = RemoveArtifacts(files)
            /\ procs' = IF popen = "running"
                        THEN ps \cup {[pid |-> pid, timecode |-> tc]}
                        ELSE ps
            /\ monitor_process' = IF popen = "raises" THEN monitor_process
                                  ELSE Some(pid)
            /\ pending' = <<>>
    ELSE /\ monitor_process' = PyNone
         /\ procs' = ps
         /\ UNCHANGED <<files, pending>>

\* What a call returns or raises, with the processes it leaves running.
Returns(ps) == [kind |-> "None", procs |-> ps]
Raises(ps) == [kind |-> "raise", procs |-> ps]

\* process.terminate() on the running processes ps: None has no such
\* method; Popen does nothing for a process that has exited and sends
\* SIGTERM to one that runs, which raises PermissionError when the OS
\* does not let vtop's account signal the sudo process.
terminate(process, ps) ==
    IF process = PyNone THEN Raises(ps)
    ELSE IF \A p \in ps : p.pid # process[1] THEN Returns(ps)
    ELSE IF host.privileged THEN Returns({p \in ps : p.pid # process[1]})
    ELSE Raises(ps)

\* Mutant: terminate is called without the `if process` and the try.
provider_cleanup_unguarded(a, process, ps) ==
    IF a = "apple_silicon" THEN terminate(process, ps) ELSE Returns(ps)

\* provider.cleanup(process) of the provider of architecture a.
provider_cleanup(a, process, ps) ==
    IF a = "apple_silicon"
    THEN IF process # PyNone
         THEN LET r == terminate(process, ps)
              IN IF r.kind = "raise" THEN Returns(ps) ELSE r
         ELSE Returns(ps)
    ELSE Returns(ps)

\* provider.cleanup(process): the processes left running.
cleanup(process) == provider_cleanup(arch, process, procs).procs

\* The calls of provider.cleanup so far, with one more on process.
Cleaned(process) ==
    Append(cleaned, [process |-> process,
                     kind |-> provider_cleanup(arch, process, procs).kind,
                     before |-> procs, after |-> cleanup(process)])

\* main, lines 359-360; timecode is str(int(time.time())).
StartSession ==
    /\ UNCHANGED coreVars
    /\ pc = "start"
    /\ timecode' = now
    /\ start_monitoring(now, procs, "running")
    /\ session' = [starts |-> 1, pushed |-> <<>>]
    /\ pc' = "get_reading"
    /\ UNCHANGED <<configVars, now, produced, os_query, ready, last_timestamp,
                   count, cpu_peak_power, gpu_peak_power, package_peak_power,
                   avg_cpu_power_list, avg_gpu_power_list, cpu_power_chart,
                   gpu_power_chart, power_text, blobs, returned, accepted,
                   endVars>>

\* The bytes powermetrics holds for a sample it begins: a NUL after what
\* its output file already holds, then the plist.
SampleBytes(f, ts, w) ==
    (IF f = NoFile THEN <<>> ELSE <<NUL>>) \o Plist(ts, 0, w)

\* The output file f after powermetrics has written bytes to it.
Written(f, bytes) == FileOf(f.bytes \o bytes)

\* powermetrics begins a sample and writes its first bytes.  Its clock may
\* stand still or step back by one between samples.
ProducerBegin ==
    /\ UNCHANGED coreVars
    /\ pending = <<>>
    /\ Len(produced) < MaxSamples
    /\ \E p \in procs, w \in PowerTriples, d \in {-1, 0, 1} :
        LET prev == IF produced = <<>> THEN 0 ELSE Last(produced)
            ts == prev + d
            bytes == SampleBytes(FileAt(p.timecode), ts, w)
            k == Min(ChunkLen, Len(bytes))
        IN /\ ts >= 1
           /\ produced' = Append(produced, ts)
           /\ files' = (p.timecode :> Written(FileAt(p.timecode), SubSeq(bytes, 1, k)))
                       @@ files
           /\ pending' = SubSeq(bytes, k + 1, Len(bytes))
    /\ UNCHANGED <<configVars, pc, now, timecode, monitor_process, procs,
                   os_query, ready, blobs, returned, mainVars, endVars>>

\* powermetrics writes the rest of the sample it began.
ProducerFinish ==
    /\ UNCHANGED coreVars
    /\ pending # <<>>
    /\ \E p \in procs :
        files' = (p.timecode :> Written(FileAt(p.timecode), pending)) @@ files
    /\ pending' = <<>>
    /\ UNCHANGED <<configVars, pc, now, timecode, monitor_process, procs,
                   produced, os_query, ready, blobs, returned, mainVars,
                   endVars>>

\* time.time() as IntelProvider.get_metrics reads it: later at every call,
\* which blocks for a tenth of a second.
TimeAfterPoll == IF arch = "intel" THEN now + 1 ELSE now

\* The samples get_metrics has returned, with r added unless it is the one
\* returned last.
Returned(r) ==
    IF r.kind = "sample" /\ (returned = <<>> \/ Last(returned) # r)
    THEN Append(returned, r)
    ELSE returned

\* main.get_reading and line 370: one turn of its polling loop.
GetReading ==
    /\ UNCHANGED coreVars
    /\ pc = "get_reading"
    /\ arch = "intel" => now < MaxTime
    /\ \E q \in SessionOsQueries :
        LET r == get_metrics(arch, FileAt(timecode), q, now)
        IN /\ os_query' = IF arch = "intel" THEN q ELSE os_query
           /\ arch = "apple_silicon" => q = os_query
           /\ ready' = r
           /\ returned' = Returned(r)
           /\ IF r.kind = "sample"
              THEN /\ last_timestamp' = r.timestamp
                   /\ pc' = "loop"
              ELSE UNCHANGED <<last_timestamp, pc>>
    /\ now' = TimeAfterPoll
    /\ UNCHANGED <<configVars, timecode, monitor_process, procs, files, pending,
                   produced, blobs, count, cpu_peak_power, gpu_peak_power,
                   package_peak_power, avg_cpu_power_list, avg_gpu_power_list,
                   cpu_power_chart, gpu_power_chart, power_text, session,
                   accepted, endVars>>

\* main, lines 483-508: the power row for the accepted sample r; started is
\* the session ghost after this iteration's restart policy.
Aggregate(r, started) ==
    LET cpu_w == Rat(r.cpu_metrics.cpu_W, args.interval)
        gpu_w == Rat(r.cpu_metrics.gpu_W, args.interval)
        pkg_w == Rat(r.cpu_metrics.package_W, args.interval)
        cpu_peak == NewPeak(cpu_peak_power, cpu_w)
        gpu_peak == NewPeak(gpu_peak_power, gpu_w)
        pkg_peak == NewPeak(package_peak_power, pkg_w)
        cpu_list == DequeAppend(avg_cpu_power_list, cpu_w, Capacity(args))
        gpu_list == DequeAppend(avg_gpu_power_list, gpu_w, Capacity(args))
    IN /\ cpu_peak_power' = cpu_peak
       /\ gpu_peak_power' = gpu_peak
       /\ package_peak_power' = pkg_peak
       /\ avg_cpu_power_list' = cpu_list
       /\ avg_gpu_power_list' = gpu_list
       /\ cpu_power_chart' = Append(cpu_power_chart,
              [w |-> cpu_w, avg |-> get_avg(cpu_list), peak |-> cpu_peak,
               pct |-> PowerPct(cpu_w, cpu_max_power)])
       /\ gpu_power_chart' = Append(gpu_power_chart,
              [w |-> gpu_w, avg |-> get_avg(gpu_list), peak |-> gpu_peak,
               pct |-> PowerPct(gpu_w, gpu_max_power)])
       /\ power_text' = Append(power_text, [total |-> pkg_w, peak |-> pkg_peak])
       /\ session' = [started EXCEPT !.pushed =
                         Append(@, [cpu |-> cpu_w, gpu |-> gpu_w, pkg |-> pkg_w])]
       /\ accepted' = Append(accepted, r.timestamp)

\* Mutant: a sample as old as the last accepted one is taken too.
IsNewerOrSame(timestamp, last) == timestamp >= last

\* Mutant: every sample is taken, whatever its timestamp.
IsAnySample(timestamp, last) == TRUE

\* main, line 413.
IsNewer(timestamp, last) == timestamp > last

\* main, lines 401-407: whether the restart policy fires in this iteration.
Restarts == args.max_count > 0 /\ count >= args.max_count

\* main, lines 389-555: one iteration of the loop: the restart policy, the
\* poll, the aggregation of a newer sample, the sleep.  A restart reads the
\* clock for the new timecode: at least one sleep of a whole second lies
\* between two starts, and the next second stands for any later one.
LoopIteration ==
    /\ UNCHANGED coreVars
    /\ pc = "loop"
    /\ arch = "intel" => now < MaxTime
    /\ Restarts => session.starts < MaxStarts
    /\ count' = IF args.max_count > 0
                THEN (IF Restarts THEN 0 ELSE count) + 1
                ELSE count
    /\ timecode' = IF Restarts THEN now + 1 ELSE timecode
    /\ IF Restarts
       THEN /\ start_monitoring(now + 1, cleanup(monitor_process), "running")
            /\ cleaned' = Cleaned(monitor_process)
       ELSE UNCHANGED <<monitor_process, procs, files, pending, cleaned>>
    /\ \E q \in SessionOsQueries :
        LET t == IF Restarts THEN now + 1 ELSE now
            r == get_metrics(arch, IF Restarts /\ arch = "apple_silicon"
                                   THEN NoFile ELSE FileAt(timecode), q, t)
            started == [starts |-> session.starts + (IF Restarts THEN 1 ELSE 0),
                        pushed |-> IF Restarts THEN <<>> ELSE session.pushed]
        IN /\ os_query' = IF arch = "intel" THEN q ELSE os_query
           /\ arch = "apple_silicon" => q = os_query
           /\ ready' = r
           /\ returned' = Returned(r)
           /\ now' = IF arch = "intel" THEN t + 1 ELSE t
           /\ IF r.kind = "sample" /\ IsNewer(r.timestamp, last_timestamp)
              THEN /\ last_timestamp' = r.timestamp
                   /\ Aggregate(r, started)
              ELSE /\ session' = started
                   /\ UNCHANGED <<last_timestamp, cpu_peak_power, gpu_peak_power,
                                  package_peak_power, avg_cpu_power_list,
                                  avg_gpu_power_list, cpu_power_chart,
                                  gpu_power_chart, power_text, accepted>>
    /\ UNCHANGED <<configVars, produced, blobs, pc, outcome>>

\* main, lines 557-562: KeyboardInterrupt inside the loop.
Interrupt ==
    /\ UNCHANGED coreVars
    /\ pc = "loop"
    /\ procs' = cleanup(monitor_process)
    /\ cleaned' = Cleaned(monitor_process)
    /\ outcome' = Outcome("interrupted", <<>>, monitor_process, "", <<>>)
    /\ pc' = "done"
    /\ UNCHANGED <<configVars, now, timecode, monitor_process, files, pending,
                   produced, os_query, ready, blobs, returned, mainVars>>

Next ==
    \/ StartSession
    \/ ProducerBegin
    \/ ProducerFinish
    \/ GetReading
    \/ LoopIteration
    \/ Interrupt

Spec == Init /\ [][Next]_vars

----------------------------------------------------------------------------
(* PowerSpec: the power limits of every profile and the power percentages *)

MaxWatt == 36

AppleBrands ==
    {AppleM1, AppleM1Max, AppleM1Pro, AppleM1Ultra, AppleM2, AppleM2Pro,
     AppleM3, AppleM3Max, AppleM4, AppleM5}
IntelBrands ==
    {IntelI9, IntelI7, IntelI5, IntelI3, IntelXeon, IntelCore2, IntelCPU}

PowerInit ==
    /\ arch \in Archs
    /\ \/ /\ arch = "apple_silicon"
          /\ \E b \in AppleBrands : os_query = QuietOs(Some(b))
       \/ /\ arch = "intel"
          /\ \E b \in {Some(n) : n \in IntelBrands} \cup {PyNone} :
                os_query = QuietOs(b)
    /\ soc_info = [name |-> <<>>, cpu_max_power |-> PyNone,
                   gpu_max_power |-> PyNone]
    /\ args \in [interval : Intervals, avg : Avgs, max_count : {0}]
    /\ cpu_max_power = PyNone
    /\ gpu_max_power = PyNone
    /\ pc = "probe"
    /\ NoSession
    /\ host = HostOf(arch)
    /\ force = PyNone
    /\ NotEnded
    /\ files = NoFiles
    /\ blobs = <<>>
    /\ MainIdle
    /\ NoCoreRow

\* main, line 234.
ProbeSoc ==
    /\ UNCHANGED coreVars
    /\ pc = "probe"
    /\ soc_info' = get_soc_info(arch, os_query.brand_string)
    /\ pc' = "limits"
    /\ UNCHANGED <<arch, args, cpu_max_power, gpu_max_power, sessionVars, files,
                   os_query, ready, blobs, returned, mainVars, host, force,
                   endVars>>

\* main, lines 352-353.
SetMaxPower ==
    /\ UNCHANGED coreVars
    /\ pc = "limits"
    /\ cpu_max_power' = main_cpu_max_power(soc_info)
    /\ gpu_max_power' = main_gpu_max_power(soc_info)
    /\ pc' = "power"
    /\ UNCHANGED <<arch, soc_info, args, sessionVars, files, os_query, ready,
                   blobs, returned, mainVars, host, force, endVars>>

\* main, lines 483-508, for a sample with any watt values.
PushPower ==
    /\ UNCHANGED coreVars
    /\ pc = "power"
    /\ \E cw \in 0..MaxWatt, gw \in 0..MaxWatt :
        LET r == Sample([cpu_W |-> cw, gpu_W |-> gw, package_W |-> cw + gw,
                         ane_W |-> 0],
                        [active |-> 0, freq_MHz |-> 0], "Nominal", 1)
        IN /\ ready' = r
           /\ last_timestamp' = r.timestamp
           /\ Aggregate(r, session)
    /\ pc' = "pushed"
    /\ UNCHANGED <<configVars, sessionVars, files, os_query, blobs, returned,
                   count, endVars>>

PowerNext ==
    \/ ProbeSoc
    \/ SetMaxPower
    \/ PushPower

PowerSpec == PowerInit /\ [][PowerNext]_vars

----------------------------------------------------------------------------
(* WindowSpec: the aggregation of main on sequences of accepted samples *)

MaxPushes == 3

WindowAvgs == {1, 2, 3}
WindowTriples == {<<10, 30, 40>>, <<20, 10, 30>>, <<30, 20, 50>>, <<5, 7, 9>>}

WindowInit ==
    /\ arch = "apple_silicon"
    /\ os_query = QuietOs(BrandOf(arch))
    /\ soc_info = get_soc_info(arch, os_query.brand_string)
    /\ args \in [interval : Intervals, avg : WindowAvgs, max_count : {0}]
    /\ cpu_max_power = main_cpu_max_power(soc_info)
    /\ gpu_max_power = main_gpu_max_power(soc_info)
    /\ pc = "aggregate"
    /\ NoSession
    /\ host = HostOf(arch)
    /\ force = PyNone
    /\ NotEnded
    /\ files = NoFiles
    /\ blobs = <<>>
    /\ MainIdle
    /\ NoCoreRow

\* main, lines 413-414 and 483-508, for the next newer sample.
AcceptSample ==
    /\ UNCHANGED coreVars
    /\ pc = "aggregate"
    /\ Len(cpu_power_chart) < MaxPushes
    /\ \E w \in WindowTriples :
        LET r == Sample([cpu_W |-> w[1], gpu_W |-> w[2], package_W |-> w[3],
                         ane_W |-> 0],
                        [active |-> 0, freq_MHz |-> 0], "Nominal",
                        last_timestamp + 1)
        IN /\ IsNewer(r.timestamp, last_timestamp)
           /\ ready' = r
           /\ last_timestamp' = r.timestamp
           /\ Aggregate(r, session)
    /\ UNCHANGED <<configVars, pc, sessionVars, files, os_query, blobs,
                   returned, count, endVars>>

WindowNext == AcceptSample

WindowSpec == WindowInit /\ [][WindowNext]_vars

----------------------------------------------------------------------------
(* LifecycleSpec: main statement by statement, from start_monitoring to its *)
(* end, on hosts where powermetrics may fail to start and where the OS may  *)
(* refuse to remove its files and to signal it                              *)

MaxUptime == 5

\* The timestamp and the file of a sample that an earlier run of vtop left
\* in /tmp, under the timecode of that run.
StaleTimestamp == 9
StaleTimecode == 0
StaleFile == FileOf(Plist(StaleTimestamp, 0, <<7, 5, 12>>))

LifecycleInit ==
    /\ arch \in Archs
    /\ soc_info = get_soc_info(arch, BrandOf(arch))
    /\ args \in [interval : {1}, avg : Avgs, max_count : {0, 1, 2}]
    /\ cpu_max_power = main_cpu_max_power(soc_info)
    /\ gpu_max_power = main_gpu_max_power(soc_info)
    /\ pc = "start"
    /\ NoSession
    /\ host \in {[HostOf(arch) EXCEPT !.privileged = b] : b \in BOOLEAN}
    /\ force = PyNone
    /\ NotEnded
    /\ files \in IF arch = "apple_silicon"
                 THEN {NoFiles, (StaleTimecode :> StaleFile)}
                 ELSE {NoFiles}
    /\ os_query = QuietOs(BrandOf(arch))
    /\ blobs = <<>>
    /\ MainIdle
    /\ NoCoreRow

\* An exception other than KeyboardInterrupt leaves main.
Raise(error) ==
    /\ outcome' = Outcome("raised", <<>>, <<>>, error, <<>>)
    /\ pc' = "done"

\* main, lines 359-360.
StartMonitoring ==
    /\ UNCHANGED coreVars
    /\ pc = "start"
    /\ timecode' = now
    /\ session' = [starts |-> 1, pushed |-> <<>>, timecodes |-> <<timecode'>>]
    /\ \E popen \in PopenOutcomes :
        /\ start_monitoring(timecode', procs, popen)
        /\ arch = "intel" => popen = "running"
        /\ IF arch = "apple_silicon" /\ popen = "raises"
           THEN Raise("FileNotFoundError")
           ELSE pc' = "get_reading" /\ UNCHANGED outcome
    /\ UNCHANGED <<configVars, now, produced, os_query, ready, last_timestamp,
                   count, cpu_peak_power, gpu_peak_power, package_peak_power,
                   avg_cpu_power_list, avg_gpu_power_list, cpu_power_chart,
                   gpu_power_chart, power_text, blobs, returned, accepted,
                   cleaned>>

\* A running powermetrics appends a whole sample to its output file.
PowermetricsWrites ==
    /\ UNCHANGED coreVars
    /\ Len(produced) < MaxSamples
    /\ \E p \in procs :
        LET ts == Len(produced) + 1
        IN /\ produced' = Append(produced, ts)
           /\ files' = (p.timecode :>
                            Written(FileAt(p.timecode),
                                    SampleBytes(FileAt(p.timecode), ts,
                                                <<5 + ts, 9, 40>>)))
                       @@ files
    /\ UNCHANGED <<configVars, pc, now, timecode, monitor_process, procs,
                   pending, os_query, ready, blobs, returned, mainVars,
                   endVars>>

\* Mutant: the polls keep the timecode that was given to the first
\* start_monitoring.
PollArgumentOfFirstStart == session.timecodes[1]

\* main, lines 363, 366 and 409: `provider.get_metrics(timecode=timecode)`
\* passes the value main's variable has when the call is made; get_reading
\* is a closure over that variable.
PollArgument == timecode

\* main.get_reading, lines 363-364 and 366, and line 370 once it returns.
ReadingPoll ==
    /\ UNCHANGED coreVars
    /\ pc = "get_reading"
    /\ arch = "intel" => now < MaxUptime
    /\ LET r == get_metrics(arch, FileAt(PollArgument), os_query, now)
       IN /\ ready' = r
          /\ returned' = Returned(r)
          /\ IF r.kind = "sample"
             THEN /\ last_timestamp' = r.timestamp
                  /\ pc' = "loop"
             ELSE /\ pc' = "reading_sleep"
                  /\ UNCHANGED last_timestamp
    /\ now' = TimeAfterPoll
    /\ UNCHANGED <<configVars, timecode, monitor_process, procs, files, pending,
                   produced, os_query, blobs, count, cpu_peak_power,
                   gpu_peak_power, package_peak_power, avg_cpu_power_list,
                   avg_gpu_power_list, cpu_power_chart, gpu_power_chart,
                   power_text, session, accepted, endVars>>

\* main.get_reading, line 365.
ReadingSleep ==
    /\ UNCHANGED coreVars
    /\ pc = "reading_sleep"
    /\ pc' = "get_reading"
    /\ UNCHANGED <<configVars, sessionVars, files, os_query, ready, blobs,
                   returned, mainVars, endVars>>

\* main, lines 401-403 and 407 when the restart policy does not fire.
LoopTop ==
    /\ UNCHANGED coreVars
    /\ pc = "loop"
    /\ IF Restarts
       THEN /\ count' = 0
            /\ pc' = "restart"
       ELSE /\ count' = IF args.max_count > 0 THEN count + 1 ELSE count
            /\ pc' = "poll"
    /\ UNCHANGED <<configVars, sessionVars, files, os_query, ready, blobs,
                   returned, last_timestamp, cpu_peak_power, gpu_peak_power,
                   package_peak_power, avg_cpu_power_list, avg_gpu_power_list,
                   cpu_power_chart, gpu_power_chart, power_text, session,
                   accepted, endVars>>

\* main, line 404.
RestartCleanup ==
    /\ UNCHANGED coreVars
    /\ pc = "restart"
    /\ procs' = cleanup(monitor_process)
    /\ cleaned' = Cleaned(monitor_process)
    /\ pc' = "respawn"
    /\ UNCHANGED <<configVars, now, timecode, monitor_process, files, pending,
                   produced, os_query, ready, blobs, returned, mainVars,
                   outcome>>

\* main, lines 405-407.
RestartMonitoring ==
    /\ UNCHANGED coreVars
    /\ pc = "respawn"
    /\ timecode' = now
    /\ session' = [starts |-> session.starts + 1, pushed |-> <<>>,
                   timecodes |-> Append(session.timecodes, timecode')]
    /\ \E popen \in PopenOutcomes :
        /\ start_monitoring(timecode', procs, popen)
        /\ arch = "intel" => popen = "running"
        /\ IF arch = "apple_silicon" /\ popen = "raises"
           THEN Raise("FileNotFoundError") /\ UNCHANGED count
           ELSE pc' = "poll" /\ count' = count + 1 /\ UNCHANGED outcome
    /\ UNCHANGED <<configVars, now, produced, os_query, ready, last_timestamp,
                   cpu_peak_power, gpu_peak_power, package_peak_power,
                   avg_cpu_power_list, avg_gpu_power_list, cpu_power_chart,
                   gpu_power_chart, power_text, blobs, returned, accepted,
                   cleaned>>

\* Mutant: the loop sleeps only after a poll that returned no sample.
SleepsOnlyAfterNone(r) == r.kind # "sample"

\* main, line 555: time.sleep(args.interval) is the last statement of the
\* loop body, outside `if ready:`; it runs whatever the poll returned.
SleepsAfter(r) == TRUE

\* main, lines 409-553.
LoopPoll ==
    /\ UNCHANGED coreVars
    /\ pc = "poll"
    /\ arch = "intel" => now < MaxUptime
    /\ LET r == get_metrics(arch, FileAt(PollArgument), os_query, now)
       IN /\ ready' = r
          /\ returned' = Returned(r)
          /\ IF r.kind = "sample" /\ IsNewer(r.timestamp, last_timestamp)
             THEN /\ last_timestamp' = r.timestamp
                  /\ Aggregate(r, session)
             ELSE UNCHANGED <<last_timestamp, cpu_peak_power, gpu_peak_power,
                              package_peak_power, avg_cpu_power_list,
                              avg_gpu_power_list, cpu_power_chart,
                              gpu_power_chart, power_text, session, accepted>>
          /\ pc' = IF SleepsAfter(r) THEN "sleep" ELSE "loop"
    /\ now' = TimeAfterPoll
    /\ UNCHANGED <<configVars, timecode, monitor_process, procs, files, pending,
                   produced, os_query, blobs, count, endVars>>

\* main, line 555: at least a second passes.
LoopSleep ==
    /\ UNCHANGED coreVars
    /\ pc = "sleep"
    /\ now < MaxUptime
    /\ now' = now + 1
    /\ pc' = "loop"
    /\ UNCHANGED <<configVars, timecode, monitor_process, procs, files, pending,
                   produced, os_query, ready, blobs, returned, mainVars,
                   endVars>>

\* KeyboardInterrupt between line 360 and the try of line 388: nothing
\* catches it.
InterruptBeforeLoop ==
    /\ UNCHANGED coreVars
    /\ pc \in {"get_reading", "reading_sleep"}
    /\ Raise("KeyboardInterrupt")
    /\ UNCHANGED <<configVars, sessionVars, files, os_query, ready, blobs,
                   returned, mainVars, cleaned>>

\* main, lines 557-562: KeyboardInterrupt inside the try.
InterruptInLoop ==
    /\ UNCHANGED coreVars
    /\ pc \in {"loop", "restart", "respawn", "poll", "sleep"}
    /\ procs' = cleanup(monitor_process)
    /\ cleaned' = Cleaned(monitor_process)
    /\ outcome' = Outcome("interrupted", <<>>, monitor_process, "", <<>>)
    /\ pc' = "done"
    /\ UNCHANGED <<configVars, now, timecode, monitor_process, files, pending,
                   produced, os_query, ready, blobs, returned, mainVars>>

LifecycleNext ==
    \/ StartMonitoring
    \/ PowermetricsWrites
    \/ ReadingPoll
    \/ ReadingSleep
    \/ LoopTop
    \/ RestartCleanup
    \/ RestartMonitoring
    \/ LoopPoll
    \/ LoopSleep
    \/ InterruptBeforeLoop
    \/ InterruptInLoop

LifecycleSpec == LifecycleInit /\ [][LifecycleNext]_vars

\* main is a running thread: whichever of its statements is next is
\* executed.  Nothing makes powermetrics write or the user interrupt.
MainRuns ==
    /\ WF_vars(StartMonitoring)
    /\ WF_vars(ReadingPoll)
    /\ WF_vars(ReadingSleep)
    /\ WF_vars(LoopTop)
    /\ WF_vars(RestartCleanup)
    /\ WF_vars(RestartMonitoring)
    /\ WF_vars(LoopPoll)
    /\ WF_vars(LoopSleep)

LifecycleLiveSpec == LifecycleSpec /\ MainRuns

----------------------------------------------------------------------------
(* CleanupSpec: provider.cleanup on any handle, called again and again *)

MaxCleanups == 2

\* Processes that may run when cleanup is called, and the handles it may be
\* called with: None, and the handles of processes that run or have exited.
SomeProcs == {[pid |-> i, timecode |-> 1] : i \in 1..2}
Handles == {PyNone} \cup {Some(i) : i \in 1..2}

CleanupInit ==
    /\ arch \in Archs
    /\ soc_info = get_soc_info(arch, BrandOf(arch))
    /\ args = [interval |-> 1, avg |-> 2, max_count |-> 0]
    /\ cpu_max_power = main_cpu_max_power(soc_info)
    /\ gpu_max_power = main_gpu_max_power(soc_info)
    /\ pc = "cleanup"
    /\ now = 1
    /\ timecode = 1
    /\ monitor_process \in Handles
    /\ procs \in SUBSET SomeProcs
    /\ pending = <<>>
    /\ produced = <<>>
    /\ host \in {[HostOf(arch) EXCEPT !.privileged = b] : b \in BOOLEAN}
    /\ force = PyNone
    /\ NotEnded
    /\ files = NoFiles
    /\ os_query = QuietOs(BrandOf(arch))
    /\ blobs = <<>>
    /\ MainIdle
    /\ NoCoreRow

\* One call of provider.cleanup(monitor_process); an exception it raised
\* would end the caller.
EndSession ==
    /\ UNCHANGED coreVars
    /\ pc = "cleanup"
    /\ Len(cleaned) < MaxCleanups
    /\ LET r == provider_cleanup(arch, monitor_process, procs)
       IN /\ procs' = r.procs
          /\ cleaned' = Append(cleaned, [process |-> monitor_process,
                                         kind |-> r.kind,
                                         before |-> procs, after |-> r.procs])
          /\ IF r.kind = "raise"
             THEN /\ outcome' = Outcome("raised", <<>>, <<>>, "Exception", <<>>)
                  /\ pc' = "done"
             ELSE UNCHANGED <<outcome, pc>>
    /\ UNCHANGED <<configVars, now, timecode, monitor_process, files, pending,
                   produced, os_query, ready, blobs, returned, mainVars>>

CleanupNext == EndSession

CleanupSpec == CleanupInit /\ [][CleanupNext]_vars

----------------------------------------------------------------------------
(* FactorySpec: get_system_provider on any host and with any override, and *)
(* what main does with its result                                          *)

aarch64 == <<"a", "a", "r", "c", "h", "6", "4">>
ARM64 == <<"A", "R", "M", "6", "4">>
i386 == <<"i", "3", "8", "6">>
i686 == <<"i", "6", "8", "6">>
riscv64 == <<"r", "i", "s", "c", "v", "6", "4">>

\* Brand strings that are neither a Mac's nor plain: Rosetta's, one naming
\* both vendors, another vendor's.
VirtualApple == <<"V", "i", "r", "t", "u", "a", "l">> \o Apple
IntelOnApple == Intel \o <<" ">> \o Apple
AMD == <<"A", "M", "D">>

\* Mutant: the probes run on any OS.
detect_architecture_any_os(h) ==
    IF h.probe_raises THEN "unknown"
    ELSE IF Contains(h.brand, Apple) THEN "apple_silicon"
    ELSE IF Contains(h.brand, Intel) THEN "intel"
    ELSE LET machine == Lower(h.machine)
         IN IF machine = arm64 \/ machine = aarch64 THEN "apple_silicon"
            ELSE IF machine \in {x86_64, i386, i686} THEN "intel"
            ELSE "unknown"

\* factory.detect_architecture on the host h.
detect_architecture(h) ==
    IF h.system # "Darwin" THEN "unknown"
    ELSE IF h.probe_raises THEN "unknown"
    ELSE IF Contains(h.brand, Apple) THEN "apple_silicon"
    ELSE IF Contains(h.brand, Intel) THEN "intel"
    ELSE LET machine == Lower(h.machine)
         IN IF machine = arm64 \/ machine = aarch64 THEN "apple_silicon"
            ELSE IF machine \in {x86_64, i386, i686} THEN "intel"
            ELSE "unknown"

\* `force if force else detect_architecture()`: None and "" are false.
SelectedTag(f, h) ==
    IF f # PyNone /\ f[1] # "" THEN f[1] ELSE detect_architecture(h)

\* The RuntimeError of get_system_provider: its message names the tag,
\* platform.system() and platform.machine().
Unsupported(tag, h) ==
    [kind |-> "raise", arch |-> tag, message |-> <<tag, h.system, h.machine>>]
Provider(tag) == [kind |-> "provider", arch |-> tag, message |-> <<>>]

\* Mutant: an unknown tag falls back to the Intel provider.
get_system_provider_fallback(f, h) ==
    LET tag == SelectedTag(f, h)
    IN IF tag = "apple_silicon" THEN Provider("apple_silicon")
       ELSE Provider("intel")

\* factory.get_system_provider(force) on the host h.
get_system_provider(f, h) ==
    LET tag == SelectedTag(f, h)
    IN IF tag = "apple_silicon" THEN Provider("apple_silicon")
       ELSE IF tag = "intel" THEN Provider("intel")
       ELSE Unsupported(tag, h)

Overrides ==
    {PyNone, Some(""), Some("apple_silicon"), Some("intel"), Some("riscv"),
     Some("unknown")}
Hosts ==
    [system : {"Darwin", "Linux"},
     machine : {arm64, aarch64, ARM64, x86_64, i386, i686, riscv64},
     brand : {AppleM1, VirtualApple, IntelI7, IntelOnApple, AMD, <<>>},
     probe_raises : BOOLEAN,
     privileged : {TRUE}]

FactoryInit ==
    /\ arch = "none"
    /\ soc_info = [name |-> <<>>, cpu_max_power |-> PyNone,
                   gpu_max_power |-> PyNone]
    /\ args = [interval |-> 1, avg |-> 2, max_count |-> 0]
    /\ cpu_max_power = PyNone
    /\ gpu_max_power = PyNone
    /\ pc = "select"
    /\ NoSession
    /\ host \in Hosts
    /\ force \in Overrides
    /\ NotEnded
    /\ files = NoFiles
    /\ os_query = QuietOs(Some(host.brand))
    /\ blobs = <<>>
    /\ MainIdle
    /\ NoCoreRow

\* main, lines 225-231, for a get_system_provider that is given the
\* override (main itself gives none): the provider is kept, a RuntimeError
\* is printed and main returns 1.  With a provider main goes on to line 359.
SelectProvider ==
    /\ UNCHANGED coreVars
    /\ pc = "select"
    /\ LET r == get_system_provider(force, host)
       IN IF r.kind = "provider"
          THEN /\ arch' = r.arch
               /\ pc' = "start"
               /\ UNCHANGED outcome
          ELSE /\ outcome' = Outcome("error_return", <<1>>, <<>>,
                                     "RuntimeError", r.message)
               /\ pc' = "done"
               /\ UNCHANGED arch
    /\ UNCHANGED <<soc_info, args, cpu_max_power, gpu_max_power, host, force,
                   sessionVars, files, os_query, ready, blobs, returned,
                   mainVars, cleaned>>

FactoryNext ==
    \/ SelectProvider
    \/ StartMonitoring

FactorySpec == FactoryInit /\ [][FactoryNext]_vars

----------------------------------------------------------------------------
(* CoreRowSpec: the per-core chart row of main, for samples whose core     *)
(* lists need not match the core counts of get_soc_info                    *)

MaxCores == 2
MaxRows == 2

\* get_soc_info with the core counts main reads at lines 235-236: sysctl's
\* hw.perflevel1.logicalcpu and hw.perflevel0.logicalcpu on Apple Silicon,
\* 0 and psutil.cpu_count(logical=True) on Intel.
CoreLayout(info, e_core_count, p_core_count) ==
    info @@ [e_core_count |-> e_core_count, p_core_count |-> p_core_count]

\* main, lines 241-242: one chart per declared core; a chart is the
\* sequence of what it was given.
CoreCharts(n) == [i \in 1..n |-> <<>>]

\* The index lists cpu_metrics["e_core"] and cpu_metrics["p_core"] of a
\* sample: the cores 0..n-1.
CoreList(n) == [i \in 1..n |-> i - 1]
CoreLists == {CoreList(n) : n \in 0..(MaxCores + 1)}

\* A sample whose cpu_metrics lists the E-cores es and the P-cores ps, with
\* the keys E-Cluster{i}_active and P-Cluster{i}_active of every listed
\* core, as functions of the core index.
CoreSample(es, ps, ts) ==
    Sample([cpu_W |-> 5 + ts, gpu_W |-> 9, package_W |-> 40, ane_W |-> 0,
            e_core |-> es, p_core |-> ps,
            e_active |-> [i \in 0..MaxCores |-> 10 * (i + 1) + ts],
            p_active |-> [i \in 0..MaxCores |-> 50 + 10 * (i + 1) + ts]],
           [active |-> 90, freq_MHz |-> 1000], "Nominal", ts)

Row(kind, charts) == [kind |-> kind, charts |-> charts]

\* main, lines 420-424 and 427-432: `for idx, i in enumerate(cores)` gives
\* charts[idx] the title and the value of core i, from position idx on
\* (positions count from 1 here).  charts[idx] past the end of the list
\* raises IndexError, after the charts before it were updated.
RECURSIVE UpdateCharts(_, _, _, _)
UpdateCharts(charts, cores, active, idx) ==
    IF idx > Len(cores) THEN Row("ok", charts)
    ELSE IF idx > Len(charts) THEN Row("IndexError", charts)
    ELSE UpdateCharts([charts EXCEPT ![idx] =
                          Append(@, [core |-> cores[idx],
                                     active |-> active[cores[idx]]])],
                      cores, active, idx + 1)

\* main, lines 419-424: the E-core loop runs only with e_core_count > 0.
UpdateECores(info, charts, cpu_metrics) ==
    IF info.e_core_count > 0
    THEN UpdateCharts(charts, cpu_metrics.e_core, cpu_metrics.e_active, 1)
    ELSE Row("ok", charts)

\* main, lines 427-432.
UpdatePCores(charts, cpu_metrics) ==
    UpdateCharts(charts, cpu_metrics.p_core, cpu_metrics.p_active, 1)

CoreRowInit ==
    /\ arch \in Archs
    /\ \E e \in 0..MaxCores, p \in 1..MaxCores :
        /\ arch = "intel" => e = 0
        /\ soc_info = CoreLayout(get_soc_info(arch, BrandOf(arch)), e, p)
        /\ e_core_charts = (IF e > 0 THEN CoreCharts(e) ELSE <<>>)
        /\ p_core_charts = CoreCharts(p)
    /\ args = [interval |-> 1, avg |-> 2, max_count |-> 0]
    /\ cpu_max_power = main_cpu_max_power(soc_info)
    /\ gpu_max_power = main_gpu_max_power(soc_info)
    /\ pc = "loop"
    /\ NoSession
    /\ host = HostOf(arch)
    /\ force = PyNone
    /\ NotEnded
    /\ files = NoFiles
    /\ os_query = QuietOs(BrandOf(arch))
    /\ blobs = <<>>
    /\ MainIdle

\* main, lines 409-433 and 483-508, for a poll that returns a newer sample.
\* IntelProvider lists no E-core and the cores psutil counts, which is what
\* its get_soc_info declared.  An IndexError is not caught by the
\* `except KeyboardInterrupt` of line 557 and leaves main.
PollCores ==
    /\ pc = "loop"
    /\ Len(accepted) < MaxRows
    /\ \E es \in CoreLists, ps \in CoreLists :
        LET r == CoreSample(es, ps, last_timestamp + 1)
            e == UpdateECores(soc_info, e_core_charts, r.cpu_metrics)
            p == IF e.kind = "ok"
                 THEN UpdatePCores(p_core_charts, r.cpu_metrics)
                 ELSE Row(e.kind, p_core_charts)
        IN /\ arch = "intel" =>
                es = <<>> /\ ps = CoreList(soc_info.p_core_count)
           /\ ready' = r
           /\ returned' = Returned(r)
           /\ last_timestamp' = r.timestamp
           /\ e_core_charts' = e.charts
           /\ p_core_charts' = p.charts
           /\ IF p.kind = "ok"
              THEN /\ Aggregate(r, session)
                   /\ UNCHANGED <<pc, outcome>>
              ELSE /\ Raise(p.kind)
                   /\ UNCHANGED <<cpu_peak_power, gpu_peak_power,
                                  package_peak_power, avg_cpu_power_list,
                                  avg_gpu_power_list, cpu_power_chart,
                                  gpu_power_chart, power_text, session,
                                  accepted>>
    /\ UNCHANGED <<configVars, sessionVars, files, os_query, blobs, count,
                   cleaned>>

CoreRowNext == PollCores

CoreRowSpec == CoreRowInit /\ [][CoreRowNext]_vars

----------------------------------------------------------------------------
(* Claims about get_metrics, under ProviderSpec *)

\* What a sample with timestamp t, thermal index th and power triple w is
\* after normalisation.
Normalized(t, th, w) ==
    Sample([cpu_W |-> w[1], gpu_W |-> w[2], package_W |-> w[3], ane_W |-> 0],
           [active |-> w[2] * 10, freq_MHz |-> 1000 + w[2]],
           IF th = 0 THEN "Nominal" ELSE "Heavy", t)

WellFormed(blob) == \E g \in GoodParams : blob = Plist(g[1], g[2], g[3])
ContentsOf(blob) ==
    LET g == CHOOSE g \in GoodParams : blob = Plist(g[1], g[2], g[3])
    IN Normalized(g[1], g[2], g[3])

PolledBuffer == pc = "polled" /\ arch = "apple_silicon" /\ blobs # <<>>

\* C1: when the last blob of the buffer does not decode and the
\* second-to-last blob is a well-formed record, get_metrics returns the
\* normalized contents of the second-to-last record.
C1_FallbackToSecondLast ==
    (/\ PolledBuffer
     /\ Len(blobs) >= 2
     /\ ~WellFormed(blobs[Len(blobs)])
     /\ WellFormed(blobs[Len(blobs) - 1]))
    => ready = ContentsOf(blobs[Len(blobs) - 1])

C1_Witness ==
    /\ PolledBuffer
    /\ Len(blobs) = 2
    /\ blobs[2] = SubSeq(Plist(1, 0, <<5, 9, 14>>), 1, 3)
    /\ blobs[1] = Plist(2, 1, <<10, 9, 14>>)
    /\ ready = Normalized(2, 1, <<10, 9, 14>>)

\* C2: get_metrics returns None exactly when the last blob does not decode
\* and the second-to-last blob is missing, empty or does not decode either,
\* whatever older blobs hold; a returned sample is that of the last blob
\* or, failing that, of the second-to-last.
C2_NoneIffBothAttemptsFail ==
    PolledBuffer =>
        LET n == Len(blobs)
            bothFail == /\ ~WellFormed(blobs[n])
                        /\ (n = 1 \/ ~WellFormed(blobs[n - 1]))
        IN /\ (ready = None) <=> bothFail
           /\ ~bothFail =>
                ready = IF WellFormed(blobs[n]) THEN ContentsOf(blobs[n])
                        ELSE ContentsOf(blobs[n - 1])

C2_Witness ==
    /\ PolledBuffer
    /\ Len(blobs) = 3
    /\ WellFormed(blobs[1])
    /\ blobs[2] = <<>>
    /\ ~WellFormed(blobs[3])
    /\ ready = None

\* C4: get_metrics of either provider returns a sample or None and never
\* raises, whatever the artifact holds and whatever the OS queries do.
C4_GetMetricsNeverRaises ==
    pc = "polled" => ready.kind \in {"sample", "None"}

C4_Witness ==
    /\ pc = "polled"
    /\ arch = "intel"
    /\ os_query.raises
    /\ ready = None

----------------------------------------------------------------------------
(* Claims about the session loop *)

\* Strictly increasing sequences of numbers.
StrictlyIncreasing(seq) ==
    \A i, j \in 1..Len(seq) : i < j => seq[i] < seq[j]

\* C3: the timestamps of the samples the loop accepted and aggregated are
\* strictly increasing, whatever the polls returned and across restarts.
C3_AcceptedStrictlyIncreasing == StrictlyIncreasing(accepted)

C3_Witness ==
    /\ Len(accepted) = 2
    /\ session.starts = 2
    /\ Len(session.pushed) = 1
    /\ accepted[1] < accepted[2]

\* The watt values pushed into a window, in push order, and the rational
\* whose numerator over the sampling interval is their sum.
PushedWatts(chart) == [i \in 1..Len(chart) |-> chart[i].w]
RECURSIVE NumeratorSum(_, _)
NumeratorSum(ws, den) ==
    IF ws = <<>> THEN 0
    ELSE Head(ws).num * (den \div Head(ws).den) + NumeratorSum(Tail(ws), den)

WindowHolds(window, chart) ==
    LET pushes == PushedWatts(chart)
        n == Len(pushes)
        cap == args.avg \div args.interval
        m == IF n < cap THEN n ELSE cap
    IN /\ Len(window) <= cap
       /\ Len(window) = m
       /\ \A i \in 1..m : window[i] = pushes[n - m + i]
       /\ n > 0 =>
            LET avg == chart[n].avg
            IN IF m = 0 THEN avg.num = 0
               ELSE avg.num * args.interval * m
                        = NumeratorSum(window, args.interval) * avg.den

\* C5: each power window holds at most capacity values, namely the last
\* min(n, capacity) of the n values pushed, in push order, and the average
\* shown is their arithmetic mean, 0 for an empty window.
C5_RollingWindow ==
    /\ WindowHolds(avg_cpu_power_list, cpu_power_chart)
    /\ WindowHolds(avg_gpu_power_list, gpu_power_chart)

C5_Witness ==
    /\ args.interval = 1
    /\ args.avg = 2
    /\ PushedWatts(cpu_power_chart) = <<Rat(10, 1), Rat(20, 1), Rat(30, 1)>>
    /\ avg_cpu_power_list = <<Rat(20, 1), Rat(30, 1)>>
    /\ cpu_power_chart[3].avg = Rat(25, 1)

RatLE(a, b) == a.num * b.den <= b.num * a.den
IsMaxOf(x, ws) ==
    /\ \A i \in 1..Len(ws) : RatLE(ws[i], x)
    /\ IF ws = <<>> THEN x.num = 0 ELSE \E i \in 1..Len(ws) : ws[i] = x
PeaksShown(chart) == [i \in 1..Len(chart) |-> chart[i].peak]
NonDecreasing(ws) == \A i, j \in 1..Len(ws) : i < j => RatLE(ws[i], ws[j])
SessionWatts(key) ==
    [i \in 1..Len(session.pushed) |->
        IF key = "cpu" THEN session.pushed[i].cpu
        ELSE IF key = "gpu" THEN session.pushed[i].gpu
        ELSE session.pushed[i].pkg]

FirstOfNewSession ==
    /\ session.starts >= 2
    /\ Len(session.pushed) = 1
    /\ ready.kind = "sample"
    /\ accepted # <<>>
    /\ Last(accepted) = ready.timestamp

PeakBefore(chart) ==
    IF Len(chart) >= 2 THEN chart[Len(chart) - 1].peak ELSE RatZero
Larger(a, b) == IF RatLE(a, b) THEN b ELSE a

FedFiveSevenNine ==
    /\ arch = "apple_silicon"
    /\ args.interval = 1
    /\ args.avg = 2
    /\ session.starts = 1
    /\ pc = "loop"
    /\ Len(returned) = 3
    /\ [i \in 1..3 |-> returned[i].cpu_metrics.cpu_W] = <<5, 7, 9>>
    /\ StrictlyIncreasing([i \in 1..3 |-> returned[i].timestamp])

AvgsShown(chart) == [i \in 1..Len(chart) |-> chart[i].avg]

\* C8 as claimed: the loop shows the averages 5, 6, 8 and the peaks 5, 7, 9.
C8_AllThreeShown ==
    FedFiveSevenNine =>
        /\ AvgsShown(cpu_power_chart) = <<Rat(5, 1), Rat(6, 1), Rat(8, 1)>>
        /\ PeaksShown(cpu_power_chart) = <<Rat(5, 1), Rat(7, 1), Rat(9, 1)>>

\* C8, amended: the first sample only sets last_timestamp; the loop shows
\* the averages 7, 8 and the peaks 7, 9 of the second and third sample.
C8_FirstSampleOnlySeeds ==
    FedFiveSevenNine =>
        /\ PushedWatts(cpu_power_chart) = <<Rat(7, 1), Rat(9, 1)>>
        /\ AvgsShown(cpu_power_chart) = <<Rat(7, 1), Rat(8, 1)>>
        /\ PeaksShown(cpu_power_chart) = <<Rat(7, 1), Rat(9, 1)>>

C8_Witness ==
    /\ FedFiveSevenNine
    /\ Len(cpu_power_chart) = 2
    /\ last_timestamp = returned[3].timestamp

----------------------------------------------------------------------------
(* Claims about the power limits and percentages, under PowerSpec *)

PctInRange(chart, max_power) ==
    \A i \in 1..Len(chart) :
        /\ chart[i].pct \in 0..100
        /\ chart[i].w.num > max_power[1] * chart[i].w.den => chart[i].pct = 100

\* C9: every power percentage pushed to a chart lies in 0..100, and is 100
\* when the watt value exceeds the maximum draw.
C9_PercentClamped ==
    pc = "pushed" =>
        /\ PctInRange(cpu_power_chart, cpu_max_power)
        /\ PctInRange(gpu_power_chart, gpu_max_power)

C9_Witness ==
    /\ pc = "pushed"
    /\ args.interval = 1
    /\ cpu_max_power = <<30>>
    /\ cpu_power_chart[1].w = Rat(33, 1)
    /\ cpu_power_chart[1].pct = 100

RecognizedApple ==
    {AppleM1, AppleM1Max, AppleM1Pro, AppleM1Ultra, AppleM2, AppleM3,
     AppleM3Max, AppleM4}

\* C10: for every chip name and both providers the two divisors are
\* positive numbers: the table's default 20 for an unrecognized Apple name,
\* the default 25 for an unrecognized Intel brand, and the loop's default 25
\* for the GPU limit the Intel profile leaves at None.
C10_MaxPowerDefined ==
    pc \in {"power", "pushed"} =>
        /\ cpu_max_power # <<>> /\ cpu_max_power[1] > 0
        /\ gpu_max_power # <<>> /\ gpu_max_power[1] > 0
        /\ (arch = "apple_silicon" /\ soc_info.name \notin RecognizedApple)
              => cpu_max_power = <<20>> /\ gpu_max_power = <<20>>
        /\ (arch = "intel" /\ os_query.brand_string \in {PyNone, <<IntelCore2>>, <<IntelCPU>>})
              => cpu_max_power = <<25>>
        /\ arch = "intel" => soc_info.gpu_max_power = <<>> /\ gpu_max_power = <<25>>

C10_Witness ==
    /\ pc = "pushed"
    /\ arch = "apple_silicon"
    /\ soc_info.name = AppleM5
    /\ cpu_max_power = <<20>>
    /\ gpu_max_power = <<20>>

----------------------------------------------------------------------------
(* Claims about the lifecycle of a session *)

\* The handles provider.cleanup was called with.
Requested == {cleaned[i].process : i \in 1..Len(cleaned)}

\* C11: the handle of every process started before the one the loop holds
\* has been passed to cleanup (so the loop never holds two started handles
\* it has not asked to terminate), and once an interrupt has ended main the
\* last started handle has been passed to cleanup too.
C11_HandlesTerminated ==
    arch = "apple_silicon" =>
        /\ monitor_process # PyNone =>
              \A k \in 1..(monitor_process[1] - 1) : Some(k) \in Requested
        /\ (\/ outcome.kind = "interrupted"
            \/ outcome.kind = "raised" /\ outcome.error = "KeyboardInterrupt")
              => (monitor_process = PyNone \/ monitor_process \in Requested)

\* C12: once the Apple provider has started a session, /tmp holds no
\* artifact of another session, and no sample get_metrics returns is one an
\* earlier run wrote.
C12_NoStaleArtifactAtSpawn ==
    (arch = "apple_silicon" /\ pc \notin {"start", "done"}) =>
        /\ \A tc \in DOMAIN files : tc = timecode
        /\ ready.kind = "sample" => ready.timestamp # StaleTimestamp

\* The process of the handle that start_monitoring returned to the initial
\* wait of main has exited, and nothing was or will be written for it.
SpawnFailed ==
    /\ arch = "apple_silicon"
    /\ pc = "get_reading"
    /\ monitor_process # PyNone
    /\ \A p \in procs : p.pid # monitor_process[1]

\* C16: when the sampling process has exited at once, main leaves its wait
\* for the first sample: it does not poll get_metrics and sleep for ever.
C16_SpawnFailureEndsWait ==
    SpawnFailed ~> (pc \notin {"get_reading", "reading_sleep"})

\* A call of cleanup that the contract requires to do nothing: the handle is
\* None, or of a process that does not run, or was given to cleanup before.
MustBeNoOp(i) ==
    \/ cleaned[i].process = PyNone
    \/ \A p \in cleaned[i].before : p.pid # cleaned[i].process[1]
    \/ \E j \in 1..(i - 1) : cleaned[j].process = cleaned[i].process

\* C13: every call of cleanup returns without raising; it leaves the running
\* processes alone when the handle is None, of a process that does not run,
\* or one cleanup was called with before and terminated, and always for
\* the Intel provider; the Apple provider on a privileged host terminates
\* the running process of the handle and no other.
C13_CleanupIsSafe ==
    \A i \in 1..Len(cleaned) :
        /\ cleaned[i].kind = "None"
        /\ outcome.kind # "raised"
        /\ (arch = "intel" \/ MustBeNoOp(i) \/ ~host.privileged)
              => cleaned[i].after = cleaned[i].before
        /\ (arch = "apple_silicon" /\ host.privileged /\ cleaned[i].process # PyNone)
              => cleaned[i].after =
                    {p \in cleaned[i].before : p.pid # cleaned[i].process[1]}

C13_Witness ==
    /\ arch = "apple_silicon"
    /\ host.privileged
    /\ Len(cleaned) = 2
    /\ cleaned[1].process = Some(1)
    /\ \E p \in cleaned[1].before : p.pid = 1
    /\ \A p \in cleaned[1].after : p.pid # 1
    /\ cleaned[2].process = Some(1)
    /\ cleaned[2].after = cleaned[2].before
    /\ cleaned[2].kind = "None"

----------------------------------------------------------------------------
(* Claims about the selection of the provider, under FactorySpec *)

\* The override, when one was given that Python does not take for false.
Given == force # PyNone /\ force[1] # ""

\* The tag get_system_provider decided on: the architecture of the provider
\* it returned, or the tag its error names.
Decided == IF outcome.kind = "error_return" THEN outcome.message[1] ELSE arch

\* C14: a provider is returned for the two supported tags alone; for any
\* other tag, detected or given, main prints an error naming the host's OS
\* and machine strings, returns 1, and neither then nor later starts a
\* session.
C14_UnknownIsHardError ==
    pc # "select" =>
        /\ outcome.kind # "error_return" => arch \in Archs
        /\ (Given /\ force[1] \notin Archs) => outcome.kind = "error_return"
        /\ (~Given /\ (host.system # "Darwin" \/ host.probe_raises))
              => outcome.kind = "error_return"
        /\ outcome.kind = "error_return" =>
              /\ Decided \notin Archs
              /\ outcome.status = <<1>>
              /\ outcome.message[2] = host.system
              /\ outcome.message[3] = host.machine
              /\ arch = "none"
              /\ session.starts = 0
              /\ monitor_process = PyNone
              /\ procs = {}

C14_Witness ==
    /\ pc = "done"
    /\ force = PyNone
    /\ host.system = "Darwin"
    /\ host.brand = AMD
    /\ host.machine = riscv64
    /\ outcome.kind = "error_return"
    /\ outcome.message = <<"unknown", "Darwin", riscv64>>
    /\ session.starts = 0

HasApple ==
    \E i \in 1..(Len(host.brand) - 4) : SubSeq(host.brand, i, i + 4) = Apple
HasIntel ==
    \E i \in 1..(Len(host.brand) - 4) : SubSeq(host.brand, i, i + 4) = Intel
ArmMachine == host.machine \in {arm64, aarch64, ARM64}
X86Machine == host.machine \in {x86_64, i386, i686}

\* C15 as claimed: wherever the CPU string can be read, on every OS, the
\* architecture is the override when one is given, else decided by the
\* vendor substring of the CPU string, else by the machine string, and
\* unknown only when none of these match.
C15_DetectionOrder ==
    (pc # "select" /\ ~host.probe_raises) =>
        /\ Given => Decided = force[1]
        /\ ~Given =>
              /\ HasApple => Decided = "apple_silicon"
              /\ (~HasApple /\ HasIntel) => Decided = "intel"
              /\ (~HasApple /\ ~HasIntel /\ ArmMachine) => Decided = "apple_silicon"
              /\ (~HasApple /\ ~HasIntel /\ X86Machine) => Decided = "intel"
              /\ (Decided \notin Archs)
                    => (~HasApple /\ ~HasIntel /\ ~ArmMachine /\ ~X86Machine)

Probed == ~Given /\ host.system = "Darwin" /\ ~host.probe_raises

\* C15, amended: the override when a non-empty one is given; else unknown
\* when the OS is not Darwin or the probe of the CPU string raises; else by
\* the vendor substring of the CPU string, Apple first; else by the
\* machine string whatever its case; unknown when none of these match.
C15_DetectionOrderOnDarwin ==
    pc # "select" =>
        /\ Given => Decided = force[1]
        /\ (~Given /\ ~Probed) => Decided = "unknown"
        /\ Probed =>
              /\ HasApple => Decided = "apple_silicon"
              /\ (~HasApple /\ HasIntel) => Decided = "intel"
              /\ (~HasApple /\ ~HasIntel /\ ArmMachine)
                    => Decided = "apple_silicon"
              /\ (~HasApple /\ ~HasIntel /\ X86Machine) => Decided = "intel"
              /\ (~HasApple /\ ~HasIntel /\ ~ArmMachine /\ ~X86Machine)
                    => Decided = "unknown"

C15_Witness ==
    /\ pc = "done"
    /\ force = PyNone
    /\ host.system = "Linux"
    /\ ~host.probe_raises
    /\ host.brand = <<>>
    /\ host.machine = aarch64
    /\ outcome.kind = "error_return"
    /\ Decided = "unknown"

----------------------------------------------------------------------------
(* Claims about the arithmetic of the aggregation *)

\* C17 as claimed: every percentage pushed is min(100, round(w / max * 100)).
PctRounded(chart, max_power) ==
    \A i \in 1..Len(chart) :
        chart[i].pct = Min(100, RoundHalfEven(chart[i].w.num * 100,
                                              chart[i].w.den * max_power[1]))
C17_PercentRounded ==
    pc = "pushed" =>
        /\ PctRounded(cpu_power_chart, cpu_max_power)
        /\ PctRounded(gpu_power_chart, gpu_max_power)

\* The percentage is the quotient n / d cut to an integer and clamped: never
\* above the quotient, and its integer part or 100, but for a quotient that
\* is an integer and that the doubles miss from below.
PctTruncated(chart, max_power) ==
    \A i \in 1..Len(chart) :
        LET n == chart[i].w.num * 100
            d == chart[i].w.den * max_power[1]
        IN /\ chart[i].pct * d <= n
           /\ chart[i].pct <= 100
           /\ \/ chart[i].pct = Min(100, n \div d)
              \/ n % d = 0 /\ chart[i].pct = (n \div d) - 1

\* C17, amended: every percentage pushed is min(100, int(w / max * 100)):
\* the quotient is truncated, not rounded, before it is clamped.
C17_PercentTruncated ==
    pc = "pushed" =>
        /\ PctTruncated(cpu_power_chart, cpu_max_power)
        /\ PctTruncated(gpu_power_chart, gpu_max_power)

C17_Witness ==
    /\ pc = "pushed"
    /\ args.interval = 1
    /\ cpu_max_power = <<30>>
    /\ cpu_power_chart[1].w = Rat(2, 1)
    /\ cpu_power_chart[1].pct = 6

\* The aggregation state of main and what it pushed to the display.
aggregation ==
    <<last_timestamp, avg_cpu_power_list, avg_gpu_power_list, cpu_peak_power,
      gpu_peak_power, package_peak_power, cpu_power_chart, gpu_power_chart,
      power_text, accepted>>

\* C18: a step of the loop after which the value last polled is None or a
\* sample no newer than last_timestamp leaves the aggregation state and the
\* display as they were; and the one sample a step processes is the sample
\* it has just polled, newer than every sample dropped before.
C18_DroppedPollChangesNothing ==
    [][/\ (pc = "loop" /\ (\/ ready'.kind = "None"
                           \/ ready'.timestamp <= last_timestamp))
            => UNCHANGED aggregation
       /\ (pc = "loop" /\ accepted' # accepted)
            => /\ ready'.kind = "sample"
               /\ ready'.timestamp > last_timestamp
               /\ last_timestamp' = ready'.timestamp
               /\ accepted' = Append(accepted, ready'.timestamp)
               /\ Len(cpu_power_chart') = Len(cpu_power_chart) + 1]_vars

C18_Witness ==
    /\ pc = "loop"
    /\ ready.kind = "sample"
    /\ ready.timestamp < last_timestamp
    /\ Len(accepted) = 1
    /\ Len(cpu_power_chart) = 1
    /\ Last(accepted) = last_timestamp

Max(a, b) == IF a > b THEN a ELSE b

\* The last k values of a sequence.
LastOf(ws, k) == SubSeq(ws, Len(ws) - k + 1, Len(ws))

\* A window of capacity avg / interval, at least 1, over the watts pushed
\* to chart: it holds the latest values, and the average shown is theirs.
WindowOfAtLeastOne(window, chart) ==
    LET pushes == PushedWatts(chart)
        cap == Max(1, args.avg \div args.interval)
        m == Min(Len(pushes), cap)
    IN /\ window = LastOf(pushes, m)
       /\ Last(chart).avg = RatDivInt(RatSum(LastOf(pushes, m)), m)

\* C19: the capacity of a window is avg / interval and at least 1: once a
\* value was pushed, the window holds the latest values up to that
\* capacity (the latest one when avg < interval) and shows their average.
C19_CapacityAtLeastOne ==
    cpu_power_chart # <<>> =>
        /\ WindowOfAtLeastOne(avg_cpu_power_list, cpu_power_chart)
        /\ WindowOfAtLeastOne(avg_gpu_power_list, gpu_power_chart)

\* The samples main took from the current session: those it aggregated,
\* and the one its initial wait returned.
Processed ==
    Len(session.pushed) + (IF session.starts = 1 THEN 1 ELSE 0)

\* C20: the loop restarts the session only when the policy is enabled and
\* max_count samples were processed since the last start.
C20_RestartAfterNSamples ==
    pc = "restart" =>
        /\ args.max_count > 0
        /\ Processed >= args.max_count

----------------------------------------------------------------------------
(* C21: when main sleeps *)

\* C21 as stated: main sleeps only after a poll in which get_metrics
\* returned nothing; after a poll that returned a sample, accepted or stale,
\* it polls again without sleeping.
C21_SleepOnlyAfterNone ==
    pc \in {"reading_sleep", "sleep"} => ready.kind # "sample"

\* C21, amended: get_reading, the wait for the first sample, sleeps only
\* after a poll that returned nothing; the loop sleeps after every poll,
\* whatever get_metrics returned, so that a sleep lies between any two of its
\* polls: a poll is followed by the sleep (or by the interrupt), and the top
\* of the loop is reached only from the sleep or from get_reading.
C21_LoopSleepsAfterEveryPoll ==
    /\ [](pc = "reading_sleep" => ready.kind # "sample")
    /\ [][(pc = "poll" /\ pc' # "poll") => pc' \in {"sleep", "done"}]_vars
    /\ [][(pc' = "loop" /\ pc # "loop") => pc \in {"sleep", "get_reading"}]_vars

\* The loop is about to sleep after a poll that returned a stale sample: the
\* one get_reading had returned, so that nothing has been accepted yet.
C21_Witness ==
    /\ pc = "sleep"
    /\ ready.kind = "sample"
    /\ ready.timestamp = last_timestamp
    /\ accepted = <<>>

----------------------------------------------------------------------------
(* C22: core lists that do not fit the declared layout, under CoreRowSpec *)

\* The sample main took last lists more E-cores or more P-cores than
\* get_soc_info declared.
ListsExtraCores ==
    /\ ready.kind = "sample"
    /\ ready.timestamp = last_timestamp
    /\ \/ Len(ready.cpu_metrics.e_core) > soc_info.e_core_count
       \/ Len(ready.cpu_metrics.p_core) > soc_info.p_core_count

\* The chart of every declared core that the sample lists shows that core's
\* value of the sample.
DeclaredShown(charts, cores, active) ==
    \A idx \in 1..Len(charts) :
        idx <= Len(cores) =>
            /\ charts[idx] # <<>>
            /\ Last(charts[idx]) = [core |-> cores[idx],
                                    active |-> active[cores[idx]]]

\* C22: a sample that lists more E-cores or P-cores than the declared
\* layout is processed without error: main keeps running, the charts of the
\* declared cores show the sample and so does the power row; the extra
\* indices are ignored.
C22_ExtraCoresIgnored ==
    ListsExtraCores =>
        /\ outcome = Running
        /\ pc = "loop"
        /\ DeclaredShown(e_core_charts, ready.cpu_metrics.e_core,
                         ready.cpu_metrics.e_active)
        /\ DeclaredShown(p_core_charts, ready.cpu_metrics.p_core,
                         ready.cpu_metrics.p_active)
        /\ accepted # <<>>
        /\ Last(accepted) = ready.timestamp

----------------------------------------------------------------------------
(* C23: the timecode of the polls *)

\* C23: whenever main is about to poll, in get_reading or in the loop, the
\* timecode it passes to get_metrics is the one given to the most recent
\* start_monitoring, and none that was given to an earlier one: after a
\* restart the path of the previous session is not polled.
C23_PollsCurrentSession ==
    pc \in {"get_reading", "poll"} =>
        /\ session.timecodes # <<>>
        /\ PollArgument = Last(session.timecodes)
        /\ \A i \in 1..(Len(session.timecodes) - 1) :
               session.timecodes[i] # PollArgument

\* The loop is about to poll after a restart, on a host where the artifact
\* of the previous session is still in /tmp and holds a sample.
C23_Witness ==
    /\ pc = "poll"
    /\ arch = "apple_silicon"
    /\ session.starts = 2
    /\ Len(session.timecodes) = 2
    /\ FileAt(session.timecodes[1]) # NoFile
    /\ get_metrics(arch, FileAt(session.timecodes[1]), os_query, now).kind
           = "sample"
    /\ PollArgument = timecode

====
